---- MODULE Spec2Model ----
(***************************************************************************)
(* CSV Combiner (src/app/page.tsx): the CSVCombiner component's state, its *)
(* handlers (handleFileUpload, removeFile, combineCSVs,                    *)
(* downloadCombinedCSV, clearAllFiles) and the three algorithms they run: *)
(* parseCSV, the column union and row reshaping, and the CSV serializer.   *)
(*                                                                         *)
(* A JavaScript string is a sequence of one-character strings.  A plain    *)
(* JavaScript object is the sequence of its own properties [k, v] in the   *)
(* order Object.keys lists them.                                           *)
(***************************************************************************)
EXTENDS Integers, Sequences, FiniteSets, TLC

VARIABLES
    uploadedFiles,       \* useState<UploadedFile[]>, page.tsx:24
    isProcessing,        \* page.tsx:25
    processingProgress,  \* page.tsx:26, the fraction <<numerator, denominator>>
    combinedData,        \* page.tsx:27
    error,               \* page.tsx:28
    tasks,               \* handleFileUpload invocations suspended at an await
    nCalls,              \* handleFileUpload invocations so far
    nRemoves,            \* removeFile calls so far
    blob,                \* the artifact the last download offered, <<>> if none
    lastCall             \* the handler that ran last, with its outcome

vars == <<uploadedFiles, isProcessing, processingProgress, combinedData, error,
          tasks, nCalls, nRemoves, blob, lastCall>>

----------------------------------------------------------------------------
(* Characters and strings *)

COMMA == ","
QUOTE == "\""
LF == "\n"
SP == " "

\* String.prototype.trim strips these from both ends
WhiteSpace == {SP, LF, "\t", "\r"}

Digits == {"0", "1", "2", "3", "4", "5", "6", "7", "8", "9"}

DigitVal(c) ==
    CASE c = "0" -> 0 [] c = "1" -> 1 [] c = "2" -> 2 [] c = "3" -> 3
      [] c = "4" -> 4 [] c = "5" -> 5 [] c = "6" -> 6 [] c = "7" -> 7
      [] c = "8" -> 8 [] c = "9" -> 9

Includes(s, c) == \E i \in 1..Len(s) : s[i] = c

RECURSIVE TrimStart(_)
TrimStart(s) ==
    IF Len(s) > 0 /\ s[1] \in WhiteSpace THEN TrimStart(Tail(s)) ELSE s

RECURSIVE TrimEnd(_)
TrimEnd(s) ==
    IF Len(s) > 0 /\ s[Len(s)] \in WhiteSpace
    THEN TrimEnd(SubSeq(s, 1, Len(s) - 1))
    ELSE s

Trim(s) == TrimEnd(TrimStart(s))

\* String.prototype.split on a one-character separator
RECURSIVE SplitFrom(_, _, _, _)
SplitFrom(s, sep, i, cur) ==
    IF i > Len(s) THEN <<cur>>
    ELSE IF s[i] = sep THEN <<cur>> \o SplitFrom(s, sep, i + 1, <<>>)
    ELSE SplitFrom(s, sep, i + 1, Append(cur, s[i]))

Split(s, sep) == SplitFrom(s, sep, 1, <<>>)

\* Array.prototype.join
RECURSIVE Join(_, _)
Join(parts, sep) ==
    IF Len(parts) = 0 THEN <<>>
    ELSE IF Len(parts) = 1 THEN parts[1]
    ELSE parts[1] \o sep \o Join(Tail(parts), sep)

\* s.replace(/c/g, by)
RECURSIVE ReplaceAll(_, _, _)
ReplaceAll(s, c, by) ==
    IF Len(s) = 0 THEN <<>>
    ELSE (IF s[1] = c THEN by ELSE <<s[1]>>) \o ReplaceAll(Tail(s), c, by)

Uppers == <<"A", "B", "C", "D", "E", "F", "G", "H", "I", "J", "K", "L", "M",
            "N", "O", "P", "Q", "R", "S", "T", "U", "V", "W", "X", "Y", "Z">>
Lowers == <<"a", "b", "c", "d", "e", "f", "g", "h", "i", "j", "k", "l", "m",
            "n", "o", "p", "q", "r", "s", "t", "u", "v", "w", "x", "y", "z">>

ToLowerChar(c) ==
    IF \E i \in 1..26 : Uppers[i] = c
    THEN Lowers[CHOOSE i \in 1..26 : Uppers[i] = c]
    ELSE c

ToLowerCase(s) == [i \in 1..Len(s) |-> ToLowerChar(s[i])]

EndsWith(s, suffix) ==
    /\ Len(s) >= Len(suffix)
    /\ SubSeq(s, Len(s) - Len(suffix) + 1, Len(s)) = suffix

----------------------------------------------------------------------------
(* Plain objects: own properties in Object.keys order.  Integer-like keys  *)
(* (array indices) come first in ascending numeric order, then the other   *)
(* keys in the order they were first assigned.                             *)

MaxArrayIndex == <<"4", "2", "9", "4", "9", "6", "7", "2", "9", "4">>

RECURSIVE LexLess(_, _)
LexLess(a, b) ==
    IF Len(a) = 0 \/ Len(b) = 0 THEN FALSE
    ELSE IF a[1] # b[1] THEN DigitVal(a[1]) < DigitVal(b[1])
    ELSE LexLess(Tail(a), Tail(b))

\* numeric order of two canonical numeric strings
NumLess(a, b) == Len(a) < Len(b) \/ (Len(a) = Len(b) /\ LexLess(a, b))

IsArrayIndex(k) ==
    /\ Len(k) > 0
    /\ \A i \in 1..Len(k) : k[i] \in Digits
    /\ Len(k) > 1 => k[1] # "0"
    /\ ~NumLess(MaxArrayIndex, k)

\* names every plain object inherits from Object.prototype
ObjectPrototypeNames ==
    { <<"c", "o", "n", "s", "t", "r", "u", "c", "t", "o", "r">>,
      <<"t", "o", "S", "t", "r", "i", "n", "g">>,
      <<"t", "o", "L", "o", "c", "a", "l", "e", "S", "t", "r", "i", "n", "g">>,
      <<"v", "a", "l", "u", "e", "O", "f">>,
      <<"h", "a", "s", "O", "w", "n", "P", "r", "o", "p", "e", "r", "t", "y">>,
      <<"i", "s", "P", "r", "o", "t", "o", "t", "y", "p", "e", "O", "f">>,
      <<"p", "r", "o", "p", "e", "r", "t", "y", "I", "s", "E", "n", "u", "m",
        "e", "r", "a", "b", "l", "e">> }

\* the accessor Object.prototype.__proto__
ProtoName == <<"_", "_", "p", "r", "o", "t", "o", "_", "_">>

\* what reading an inherited name yields: an object, not a string
Inherited == <<"[object]">>

IsString(v) == v # Inherited

ObjKeys(obj) == [i \in 1..Len(obj) |-> obj[i].k]

HasOwn(obj, k) == \E i \in 1..Len(obj) : obj[i].k = k

OwnValue(obj, k) == obj[CHOOSE i \in 1..Len(obj) : obj[i].k = k].v

\* obj[k] || ""
ObjGetOrEmpty(obj, k) ==
    IF HasOwn(obj, k) THEN OwnValue(obj, k)
    ELSE IF k \in ObjectPrototypeNames \/ k = ProtoName THEN Inherited
    ELSE <<>>

\* where a new own key is inserted, so that ObjKeys stays in OwnPropertyKeys order
InsertPos(obj, k) ==
    IF IsArrayIndex(k)
    THEN 1 + Cardinality({i \in 1..Len(obj) :
                            IsArrayIndex(obj[i].k) /\ NumLess(obj[i].k, k)})
    ELSE Len(obj) + 1

\* obj[k] = v, v a string
ObjSet(obj, k, v) ==
    IF k = ProtoName THEN obj    \* the __proto__ setter ignores a primitive
    ELSE IF HasOwn(obj, k)
    THEN [i \in 1..Len(obj) |-> IF obj[i].k = k THEN [k |-> k, v |-> v] ELSE obj[i]]
    ELSE LET p == InsertPos(obj, k)
         IN  SubSeq(obj, 1, p - 1) \o <<[k |-> k, v |-> v]>> \o SubSeq(obj, p, Len(obj))

----------------------------------------------------------------------------
(* parseCSV, page.tsx:30-72 *)

\* the for loop of parseCSVLine from position i on
RECURSIVE ParseCSVLineFrom(_, _, _, _, _)
ParseCSVLineFrom(line, i, result, current, inQuotes) ==
    IF i > Len(line) THEN Append(result, Trim(current))
    ELSE IF line[i] = QUOTE
    THEN ParseCSVLineFrom(line, i + 1, result, current, ~inQuotes)
    ELSE IF line[i] = COMMA /\ ~inQuotes
    THEN ParseCSVLineFrom(line, i + 1, Append(result, Trim(current)), <<>>, inQuotes)
    ELSE ParseCSVLineFrom(line, i + 1, result, Append(current, line[i]), inQuotes)

parseCSVLine(line) == ParseCSVLineFrom(line, 1, <<>>, <<>>, FALSE)

\* text.split("\n").filter((line) => line.trim())
NonBlankLines(text) == SelectSeq(Split(text, LF), LAMBDA l : Len(Trim(l)) > 0)

StripQuotes(fields) == [i \in 1..Len(fields) |-> ReplaceAll(fields[i], QUOTE, <<>>)]

\* headers.forEach((header, index) => { row[header] = values[index] || "" })
RECURSIVE BuildRow(_, _, _, _)
BuildRow(headers, values, index, row) ==
    IF index > Len(headers) THEN row
    ELSE BuildRow(headers, values, index + 1,
                  ObjSet(row, headers[index],
                         IF index <= Len(values) THEN values[index] ELSE <<>>))

ParseHeaders(text) == StripQuotes(parseCSVLine(NonBlankLines(text)[1]))

parseCSV(text) ==
    LET lines == NonBlankLines(text)
    IN  IF Len(lines) = 0 THEN <<>>
        ELSE LET headers == StripQuotes(parseCSVLine(lines[1]))
             IN  [n \in 1..(Len(lines) - 1) |->
                    BuildRow(headers, StripQuotes(parseCSVLine(lines[n + 1])), 1, <<>>)]

----------------------------------------------------------------------------
(* combineCSVs, page.tsx:124-148 *)

\* new Set<string>() filled with add, then Array.from: first insertion order
RECURSIVE AddAll(_, _)
AddAll(set, cols) ==
    IF Len(cols) = 0 THEN set
    ELSE AddAll(IF \E i \in 1..Len(set) : set[i] = cols[1]
                THEN set ELSE Append(set, cols[1]),
                Tail(cols))

RECURSIVE AllColumns(_, _)
AllColumns(files, set) ==
    IF Len(files) = 0 THEN set
    ELSE AllColumns(Tail(files), AddAll(set, files[1].columns))

\* columnArray.forEach((col) => { newRow[col] = row[col] || "" })
RECURSIVE ReshapeRow(_, _, _)
ReshapeRow(row, columnArray, newRow) ==
    IF Len(columnArray) = 0 THEN newRow
    ELSE ReshapeRow(row, Tail(columnArray),
                    ObjSet(newRow, columnArray[1], ObjGetOrEmpty(row, columnArray[1])))

RECURSIVE CombineRows(_, _)
CombineRows(files, columnArray) ==
    IF Len(files) = 0 THEN <<>>
    ELSE [n \in 1..Len(files[1].data) |->
            ReshapeRow(files[1].data[n], columnArray, <<>>)]
         \o CombineRows(Tail(files), columnArray)

Combined(files) == CombineRows(files, AllColumns(files, <<>>))

----------------------------------------------------------------------------
(* the serializer of downloadCombinedCSV, page.tsx:153-168 *)

\* a serializer that forgets the comma test
NeedsQuotingWithoutComma(value) ==
    Includes(value, QUOTE) \/ Includes(value, LF)

NeedsQuoting(value) ==
    Includes(value, COMMA) \/ Includes(value, QUOTE) \/ Includes(value, LF)

\* the callback of columns.map
EscapeValue(value) ==
    IF NeedsQuoting(value)
    THEN <<QUOTE>> \o ReplaceAll(value, QUOTE, <<QUOTE, QUOTE>>) \o <<QUOTE>>
    ELSE value

RowLine(row, columns) ==
    Join([j \in 1..Len(columns) |-> EscapeValue(ObjGetOrEmpty(row, columns[j]))],
         <<COMMA>>)

CsvContent(data) ==
    LET columns == ObjKeys(data[1])
    IN  Join(<<Join(columns, <<COMMA>>)>>
             \o [n \in 1..Len(data) |-> RowLine(data[n], columns)],
             <<LF>>)

\* value.includes is called on every cell: a cell that is no string throws
Serializable(data) ==
    LET columns == ObjKeys(data[1])
    IN  \A n \in 1..Len(data) : \A j \in 1..Len(columns) :
            IsString(ObjGetOrEmpty(data[n], columns[j]))

----------------------------------------------------------------------------
(* Files, messages and the component's state *)

\* the limit of page.tsx:76
MaxFilesAllowed == 100

\* a File of a FileList: its name, its content and whether file.text() resolves
MkFile(name, text, readable) == [name |-> name, text |-> text, readable |-> readable]

DotCsv == <<".", "c", "s", "v">>

\* file.name.toLowerCase().endsWith(".csv"), page.tsx:88
IsCsvName(name) == EndsWith(ToLowerCase(name), DotCsv)

NoError == [msg |-> "", name |-> <<>>]
MaxFilesError == [msg |-> "Maximum 100 files allowed", name |-> <<>>]
NotCsvError(name) == [msg |-> "File ${file.name} is not a CSV file", name |-> name]
ProcessingError(name) == [msg |-> "Error processing ${file.name}: ${err}", name |-> name]

ZeroProgress == <<0, 1>>

NoCall == [op |-> "none", call |-> 0, nfiles |-> 0, result |-> "none"]

Init ==
    /\ uploadedFiles = <<>>
    /\ isProcessing = FALSE
    /\ processingProgress = ZeroProgress
    /\ combinedData = <<>>
    /\ error = NoError
    /\ tasks = <<>>
    /\ nCalls = 0
    /\ nRemoves = 0
    /\ blob = <<>>
    /\ lastCall = NoCall

----------------------------------------------------------------------------
(* handleFileUpload, page.tsx:74-117.  The function runs synchronously up  *)
(* to its first await, and every later run starts when the awaited         *)
(* file.text() settles and goes on (through parseCSV, whose promise is     *)
(* already resolved, and through the files skipped by `continue`) up to    *)
(* the next file.text() or to the end of the function.                     *)

\* a limit test that forgets the files already registered
CountExceededInBatchAlone(files) == Len(files) > MaxFilesAllowed

\* page.tsx:76
CountExceeded(files) == Len(files) + Len(uploadedFiles) > MaxFilesAllowed

\* the first index from i on whose file passes the extension test
NextCsv(files, i) ==
    IF \E j \in i..Len(files) : IsCsvName(files[j].name)
    THEN CHOOSE j \in i..Len(files) :
            /\ IsCsvName(files[j].name)
            /\ \A h \in i..(j - 1) : ~IsCsvName(files[h].name)
    ELSE Len(files) + 1

\* page.tsx:96-104; the id is a fresh token (a collision of two
\* Math.random() draws is left out): the call and the index in its FileList
NewEntry(c, i, file) ==
    LET data == parseCSV(file.text)
    IN  [file |-> file,
         id |-> <<c, i>>,
         rows |-> Len(data),
         columns |-> IF Len(data) > 0 THEN ObjKeys(data[1]) ELSE <<>>,
         data |-> data]

WithTask(c, t) == [d \in (DOMAIN tasks) \cup {c} |-> IF d = c THEN t ELSE tasks[d]]
WithoutTask(c) == [d \in (DOMAIN tasks) \ {c} |-> tasks[d]]

\* the for loop from index i on, up to the next await or through page.tsx:112-114
RunLoop(c, files, i, newFiles, err, processing, progress) ==
    LET j == NextCsv(files, i)
        e == IF j > i THEN NotCsvError(files[j - 1].name) ELSE err
    IN  IF j <= Len(files)
        THEN /\ tasks' = WithTask(c, [files |-> files, i |-> j, newFiles |-> newFiles])
             /\ error' = e
             /\ isProcessing' = processing
             /\ processingProgress' = progress
             /\ UNCHANGED uploadedFiles
        ELSE /\ tasks' = WithoutTask(c)
             /\ error' = e
             /\ uploadedFiles' = uploadedFiles \o newFiles
             /\ isProcessing' = FALSE
             /\ processingProgress' = ZeroProgress

HandleFileUpload(files) ==
    /\ nCalls' = nCalls + 1
    /\ IF CountExceeded(files)
       THEN /\ error' = MaxFilesError
            /\ lastCall' = [op |-> "handleFileUpload", call |-> nCalls + 1,
                            nfiles |-> Len(files), result |-> "FileCountExceeded"]
            /\ UNCHANGED <<uploadedFiles, isProcessing, processingProgress, tasks>>
       ELSE /\ RunLoop(nCalls + 1, files, 1, <<>>, NoError, TRUE, processingProgress)
            /\ lastCall' = [op |-> "handleFileUpload", call |-> nCalls + 1,
                            nfiles |-> Len(files), result |-> "accepted"]
    /\ UNCHANGED <<combinedData, nRemoves, blob>>

\* the continuation of call c after its await, page.tsx:94-110
ResumeUpload(c) ==
    /\ c \in DOMAIN tasks
    /\ LET t == tasks[c]
           file == t.files[t.i]
       IN  IF file.readable
           THEN RunLoop(c, t.files, t.i + 1, Append(t.newFiles, NewEntry(c, t.i, file)),
                        error, isProcessing, <<t.i * 100, Len(t.files)>>)
           ELSE RunLoop(c, t.files, t.i + 1, t.newFiles,
                        ProcessingError(file.name), isProcessing, processingProgress)
    /\ lastCall' = [op |-> "handleFileUpload.resume", call |-> c,
                    nfiles |-> Len(tasks[c].files), result |-> "none"]
    /\ UNCHANGED <<combinedData, nCalls, nRemoves, blob>>

\* page.tsx:119-122
RemoveFile(id) ==
    /\ uploadedFiles' = SelectSeq(uploadedFiles, LAMBDA f : f.id # id)
    /\ combinedData' = <<>>
    /\ nRemoves' = nRemoves + 1
    /\ lastCall' = [op |-> "removeFile", call |-> 0, nfiles |-> 0, result |-> "none"]
    /\ UNCHANGED <<isProcessing, processingProgress, error, tasks, nCalls, blob>>

\* page.tsx:124-148; the button is rendered only over a non-empty list
CombineCSVs ==
    /\ Len(uploadedFiles) > 0
    /\ combinedData' = Combined(uploadedFiles)
    /\ lastCall' = [op |-> "combineCSVs", call |-> 0, nfiles |-> 0, result |-> "none"]
    /\ UNCHANGED <<uploadedFiles, isProcessing, processingProgress, error, tasks,
                   nCalls, nRemoves, blob>>

\* page.tsx:150-179; a cell that is no string makes value.includes throw
DownloadCombinedCSV ==
    /\ Len(combinedData) > 0
    /\ IF Serializable(combinedData)
       THEN /\ blob' = <<[download |-> "combined-data.csv", type |-> "text/csv",
                          content |-> CsvContent(combinedData)]>>
            /\ lastCall' = [op |-> "downloadCombinedCSV", call |-> 0, nfiles |-> 0,
                            result |-> "downloaded"]
       ELSE /\ blob' = blob
            /\ lastCall' = [op |-> "downloadCombinedCSV", call |-> 0, nfiles |-> 0,
                            result |-> "TypeError"]
    /\ UNCHANGED <<uploadedFiles, isProcessing, processingProgress, combinedData,
                   error, tasks, nCalls, nRemoves>>

\* page.tsx:181-185; the button is rendered only over a non-empty list
ClearAllFiles ==
    /\ Len(uploadedFiles) > 0
    /\ uploadedFiles' = <<>>
    /\ combinedData' = <<>>
    /\ error' = NoError
    /\ lastCall' = [op |-> "clearAllFiles", call |-> 0, nfiles |-> 0, result |-> "none"]
    /\ UNCHANGED <<isProcessing, processingProgress, tasks, nCalls, nRemoves, blob>>

----------------------------------------------------------------------------
(* The user's selections and clicks, and the settling file reads *)

MaxCalls == 2
MaxRemoves == 2

CsvFile(text) == MkFile(<<"t", ".", "c", "s", "v">>, text, TRUE)

FileA == MkFile(<<"a", ".", "c", "s", "v">>, <<"a", LF, "1">>, TRUE)
FileB == MkFile(<<"b", ".", "C", "S", "V">>, <<"b", LF, "2">>, TRUE)
FileTxt == MkFile(<<"n", ".", "t", "x", "t">>, <<"n">>, TRUE)
FileUnreadable == MkFile(<<"x", ".", "c", "s", "v">>, <<>>, FALSE)

\* one file short of the limit, and one file over it
LargeBatch == [i \in 1..(MaxFilesAllowed - 1) |-> FileA]
OverBatch == [i \in 1..(MaxFilesAllowed + 1) |-> FileA]

SmallBatches ==
    {<<FileA>>, <<FileA, FileB>>, <<FileTxt, FileB>>, <<FileUnreadable>>, OverBatch}

Resume == \E c \in DOMAIN tasks : ResumeUpload(c)

\* the X button of the first or of the last listed file
Remove ==
    /\ nRemoves < MaxRemoves
    /\ \E i \in {1, Len(uploadedFiles)} :
          /\ i >= 1
          /\ RemoveFile(uploadedFiles[i].id)

(* The session: small selections, overlapping or not, and every button *)

Upload ==
    /\ nCalls < MaxCalls
    /\ \E files \in SmallBatches : HandleFileUpload(files)

Next ==
    \/ Upload
    \/ Resume
    \/ Remove
    \/ CombineCSVs
    \/ DownloadCombinedCSV
    \/ ClearAllFiles

Spec == Init /\ [][Next]_vars

(* The session around the limit of 100 files *)

LimitBatches == {<<FileA>>, <<FileA, FileB>>, OverBatch}

UploadNearLimit ==
    /\ nCalls < MaxCalls
    /\ \E files \in LimitBatches : HandleFileUpload(files)

\* the large selection is made while no other upload is being read
UploadLarge ==
    /\ nCalls < MaxCalls
    /\ DOMAIN tasks = {}
    /\ HandleFileUpload(LargeBatch)

LimitNext ==
    \/ UploadNearLimit
    \/ UploadLarge
    \/ Resume
    \/ Remove
    \/ ClearAllFiles

LimitSpec == Init /\ [][LimitNext]_vars

(* Tables of different shapes, uploaded one selection after the other and  *)
(* combined                                                                *)

MaxTables == 2

TableDocs ==
    { <<"a", COMMA, "b", LF, "1", COMMA, "2">>,
      <<"a", COMMA, "c", LF, "3", COMMA, "4", LF, "5">>,
      <<"b", COMMA, "a", LF, "6", COMMA, "7">>,
      <<"c">>,
      <<>>,
      <<"1", LF, "x">>,
      <<"v", "a", "l", "u", "e", "O", "f", LF, "v">> }

TableBatches ==
    UNION {[1..n -> {CsvFile(d) : d \in TableDocs}] : n \in 1..MaxTables}

UploadTables ==
    /\ nCalls < MaxCalls
    /\ DOMAIN tasks = {}
    /\ \E files \in TableBatches : HandleFileUpload(files)

CombineNext ==
    \/ UploadTables
    \/ Resume
    \/ CombineCSVs

CombineSpec == Init /\ [][CombineNext]_vars

(* One document through the whole pipeline: parsed, combined, downloaded *)

MaxDocLen == 5

DocChars == {"a", "1", COMMA, QUOTE, SP, LF}

Docs == UNION {[1..n -> DocChars] : n \in 0..MaxDocLen}

UploadDoc ==
    /\ nCalls = 0
    /\ \E d \in Docs : HandleFileUpload(<<CsvFile(d)>>)

PipelineNext ==
    \/ UploadDoc
    \/ Resume
    \/ CombineCSVs
    \/ DownloadCombinedCSV

PipelineSpec == Init /\ [][PipelineNext]_vars

(* The serializer on datasets of its whole input domain: uniform rows of   *)
(* strings, quotes and line feeds included                                 *)

MaxSerRows == 2

SerColumns ==
    { <<<<"a">>>>, <<<<"b">>, <<"a">>>>, <<<<"b">>, <<"1">>>>, <<<<>>, <<"a">>>> }

SerValues ==
    { <<>>, <<"x">>, <<"x", COMMA, SP>>, <<QUOTE>>, <<"x", QUOTE, QUOTE>>, <<LF>> }

\* the rows of r lines of cells under the column names cols
Dataset(cols, cells) ==
    [n \in 1..Len(cells) |-> BuildRow(cols, cells[n], 1, <<>>)]

SerInit ==
    /\ uploadedFiles = <<>>
    /\ isProcessing = FALSE
    /\ processingProgress = ZeroProgress
    /\ \E cols \in SerColumns, r \in 1..MaxSerRows :
          \E cells \in [1..r -> [1..Len(cols) -> SerValues]] :
              combinedData = Dataset(cols, cells)
    /\ error = NoError
    /\ tasks = <<>>
    /\ nCalls = 0
    /\ nRemoves = 0
    /\ blob = <<>>
    /\ lastCall = NoCall

SerNext == DownloadCombinedCSV

SerSpec == SerInit /\ [][SerNext]_vars

----------------------------------------------------------------------------
(* Properties *)

Range(seq) == {seq[i] : i \in 1..Len(seq)}

\* the elements of seq, each at its first occurrence only
FirstOccurrences(seq) ==
    LET keep == {i \in 1..Len(seq) : \A j \in 1..(i - 1) : seq[j] # seq[i]}
        nth(n) == CHOOSE i \in keep : Cardinality({j \in keep : j < i}) = n - 1
    IN  [n \in 1..Cardinality(keep) |-> seq[nth(n)]]

RECURSIVE Concat(_)
Concat(seqs) == IF Len(seqs) = 0 THEN <<>> ELSE seqs[1] \o Concat(Tail(seqs))

\* the header line of a document as the tokenizer splits it, <<>> without one
HeaderOf(text) ==
    IF Len(NonBlankLines(text)) = 0 THEN <<>> ELSE ParseHeaders(text)

\* C1: right after combineCSVs, combinedData is the concatenation of the
\* registered tables' rows, in table order then row order, each holding
\* exactly the union columns, with the source row's value where the source
\* row has the column and the empty string otherwise; so its length is the
\* sum of the tables' row counts.
C1_CombineReshapesEveryRow ==
    lastCall.op = "combineCSVs" =>
        LET src == Concat([t \in 1..Len(uploadedFiles) |-> uploadedFiles[t].data])
            union == UNION {Range(f.columns) : f \in Range(uploadedFiles)}
        IN  /\ Len(combinedData) = Len(src)
            /\ \A n \in 1..Len(src) :
                  /\ Range(ObjKeys(combinedData[n])) = union
                  /\ \A col \in union :
                        OwnValue(combinedData[n], col) =
                            IF HasOwn(src[n], col) THEN OwnValue(src[n], col) ELSE <<>>

\* C2: right after combineCSVs over tables that each hold a data row, the
\* column list of the combined dataset is the union of the tables' header
\* columns without duplicates, ordered by first occurrence: tables in
\* processing order, each table's columns in its header order.
C2_ColumnsInFirstOccurrenceOrder ==
    ( /\ lastCall.op = "combineCSVs"
      /\ Len(combinedData) > 0
      /\ \A f \in Range(uploadedFiles) : f.rows > 0 )
    => ObjKeys(combinedData[1]) =
          FirstOccurrences(Concat([t \in 1..Len(uploadedFiles) |->
                                      HeaderOf(uploadedFiles[t].file.text)]))

\* C3: the downloaded text of one parsed table parses back to that table.
C3_RoundTrip ==
    (Len(blob) > 0 /\ Len(uploadedFiles) = 1)
    => parseCSV(blob[1].content) = uploadedFiles[1].data

\* C4: right after combineCSVs, a registered table with a header line and
\* no data row has added no row, and each of its header columns is a
\* column of the combined dataset; a table without columns adds none.
C4_HeaderOnlyTableJoinsTheUnion ==
    (lastCall.op = "combineCSVs" /\ Len(combinedData) > 0)
    => /\ Len(combinedData) =
            Len(Concat([t \in 1..Len(uploadedFiles) |-> uploadedFiles[t].data]))
       /\ \A f \in Range(uploadedFiles) :
            f.rows = 0 =>
                \A col \in Range(HeaderOf(f.file.text)) : HasOwn(combinedData[1], col)

\* C5: the registered set never holds more than 100 documents.
C5_AtMostHundredRegistered == Len(uploadedFiles) <= MaxFilesAllowed

\* the selection order of two files: by call, then by index in the FileList
SelectedBefore(id1, id2) ==
    id1[1] < id2[1] \/ (id1[1] = id2[1] /\ id1[2] < id2[2])

\* C6: the registered files are listed in the order they were selected.
C6_RegisteredInSelectionOrder ==
    \A i, j \in 1..Len(uploadedFiles) :
        i < j => SelectedBefore(uploadedFiles[i].id, uploadedFiles[j].id)

\* C7: a handleFileUpload call whose batch size plus the number of
\* registered files exceeds 100 reports the count-exceeded error, starts
\* reading no file and leaves uploadedFiles as it was.
C7_OverLimitBatchIsRejectedWhole ==
    [][ ( /\ nCalls' = nCalls + 1
          /\ lastCall'.nfiles + Len(uploadedFiles) > MaxFilesAllowed )
        => ( /\ error' = MaxFilesError
             /\ uploadedFiles' = uploadedFiles
             /\ tasks' = tasks ) ]_vars

\* a batch of two was rejected over 99 registered files, which are all kept
C7_Witness ==
    /\ lastCall.op = "handleFileUpload"
    /\ lastCall.result = "FileCountExceeded"
    /\ lastCall.nfiles = 2
    /\ error = MaxFilesError
    /\ Len(uploadedFiles) = MaxFilesAllowed - 1

\* the field the claim gives a value: wrapped in quotes with every quote
\* doubled when it holds a comma, a quote or a line feed, else unchanged
ClaimedField(value) ==
    IF \E i \in 1..Len(value) : value[i] \in {COMMA, QUOTE, LF}
    THEN <<QUOTE>>
         \o Concat([i \in 1..Len(value) |->
                      IF value[i] = QUOTE THEN <<QUOTE, QUOTE>> ELSE <<value[i]>>])
         \o <<QUOTE>>
    ELSE value

\* parts[1] sep parts[2] sep ... parts[n]
Separated(parts, sep) ==
    Concat([i \in 1..Len(parts) |-> IF i = 1 THEN parts[i] ELSE <<sep>> \o parts[i]])

\* C8: the downloaded text is the column names joined by commas, then one
\* line per row of the claimed fields joined by commas, the lines joined by
\* line feeds.
C8_SerializerQuotesExactlyWhenNeeded ==
    Len(blob) > 0 =>
        LET columns == ObjKeys(combinedData[1])
        IN  blob[1].content =
              Separated(<<Separated(columns, COMMA)>>
                        \o [n \in 1..Len(combinedData) |->
                              Separated([j \in 1..Len(columns) |->
                                           ClaimedField(OwnValue(combinedData[n],
                                                                 columns[j]))],
                                        COMMA)],
                        LF)

\* a download of two rows, one cell quoted with a doubled quote, one plain
C8_Witness ==
    /\ Len(blob) > 0
    /\ Len(combinedData) = 2
    /\ \E n \in 1..2 : \E p \in 1..Len(combinedData[n]) :
          Includes(combinedData[n][p].v, QUOTE)
    /\ \E n \in 1..2 : \E p \in 1..Len(combinedData[n]) :
          combinedData[n][p].v = <<"x">>
    /\ Includes(blob[1].content, QUOTE)

\* C9: the rows of a registered document are one per non-blank line after
\* the header line, in order, each with exactly the header's columns as
\* keys and with header[i] mapped to the i-th field of the line, or to the
\* empty string where the line has no i-th field; no line, no row.
C9_ParseMapsHeaderToFields ==
    \A f \in Range(uploadedFiles) :
        LET lines == NonBlankLines(f.file.text)
        IN  IF Len(lines) = 0 THEN f.data = <<>>
            ELSE LET header == parseCSVLine(lines[1])
                 IN  /\ Len(f.data) = Len(lines) - 1
                     /\ \A n \in 1..Len(f.data) :
                          LET fields == parseCSVLine(lines[n + 1])
                          IN  /\ Range(ObjKeys(f.data[n])) = Range(header)
                              /\ \A i \in 1..Len(header) :
                                    OwnValue(f.data[n], header[i]) =
                                        IF i <= Len(fields) THEN fields[i] ELSE <<>>

\* C10: a non-empty combinedData is the combination of the registered files.
C10_CombinedDataMatchesRegisteredFiles ==
    Len(combinedData) > 0 => combinedData = Combined(uploadedFiles)

====
